---- MODULE Spec2Model ----
(***************************************************************************)
(* A model of class `directories` (load.py): a directory context (cwd,     *)
(* parent_dir, files) over a filesystem, with its navigation, keyword      *)
(* folder search, file operations and persistence wrappers.                *)
(*                                                                         *)
(* A name is a sequence of one-character strings, so that substring tests  *)
(* (kw in dir_name), suffix tests (endswith('.csv')) and splitting         *)
(* (split('.'), strip('/')) are computed as the code computes them.  An    *)
(* absolute path is the sequence of its component names; <<>> is "/".      *)
(***************************************************************************)
EXTENDS Naturals, Sequences, FiniteSets

VARIABLES
    dirs,          \* the directories of the filesystem (absolute paths)
    content,       \* regular files: path -> what the file holds
    oscwd,         \* the process-wide current directory (os.getcwd())
    cwd,           \* self.cwd
    parent_dir,    \* self.parent_dir
    files,         \* self.files, the cached listing
    pc,            \* "idle", or "up" inside find_closest_kw_folder_up's loop
    current_path,  \* the loop's local current_path
    kw,            \* the loop's parameter kw
    ticks,         \* progress lines written by the running loop, modulo 2
    last           \* the last call that completed, with its outcome

vars == <<dirs, content, oscwd, cwd, parent_dir, files, pc, current_path, kw,
          ticks, last>>

(***************************************************************************)
(* Bounds of the model.                                                    *)
(***************************************************************************)
MaxDepth == 3      \* deepest directory of an initial tree
MaxSegs == 2       \* most segments of one join_path_with_keyword call
MaxDest == 2       \* most components of a move_file destination
MaxFsDepth == 3    \* deepest entry move_file is followed to

(***************************************************************************)
(* Names.                                                                  *)
(***************************************************************************)
NameA == <<"a">>
NameB == <<"b">>
NameData == <<"d", "a", "t", "a">>
Names == {NameA, NameB, NameData}
Keywords == {NameData, NameA}

Root == <<>>

RECURSIVE PathsOfLen(_)
PathsOfLen(n) ==
    IF n = 0 THEN {Root}
    ELSE {Append(p, x) : p \in PathsOfLen(n - 1), x \in Names}

AllPaths == UNION {PathsOfLen(n) : n \in 0..MaxDepth}

Prefixes(p) == {SubSeq(p, 1, i) : i \in 0..Len(p)}
Closure(S) == UNION {Prefixes(p) : p \in S}

IsPrefix(p, q) == Len(p) <= Len(q) /\ SubSeq(q, 1, Len(p)) = p

(***************************************************************************)
(* os.path and os primitives over a filesystem (ds, fc).                   *)
(***************************************************************************)
Dirname(p) == IF p = Root THEN Root ELSE SubSeq(p, 1, Len(p) - 1)
Basename(p) == p[Len(p)]
Join(p, name) == Append(p, name)

Entries(ds, fc) == (ds \cup DOMAIN fc) \ {Root}
ExistsIn(ds, fc, p) == p \in ds \/ p \in DOMAIN fc
ListdirIn(ds, fc, p) ==
    {Basename(q) : q \in {r \in Entries(ds, fc) : Dirname(r) = p}}

NoFiles == [p \in {} |-> [fmt |-> "raw"]]
RawFile == [fmt |-> "raw"]

Exists(p) == ExistsIn(dirs, content, p)
IsDir(p) == p \in dirs
IsFile(p) == p \in DOMAIN content
Listdir(p) == ListdirIn(dirs, content, p)

\* kw in dir_name: kw occurs in name as a contiguous substring
Contains(k, name) ==
    \E i \in 1..(Len(name) + 1) :
        i + Len(k) - 1 <= Len(name) /\ SubSeq(name, i, i + Len(k) - 1) = k

(***************************************************************************)
(* Return values and call records.                                         *)
(***************************************************************************)
NoneRet == [tag |-> "None"]
PathRet(p) == [tag |-> "path", path |-> p]
NoPath == Root
NoKw == <<>>
NoCall == [op |-> "none"]

(***************************************************************************)
(* __init__: the object is constructed in directory c.                     *)
(***************************************************************************)
Constructed(c) ==
    /\ oscwd = c
    /\ cwd = c
    /\ parent_dir = Dirname(c)
    /\ files = Listdir(c)
    /\ pc = "idle"
    /\ current_path = NoPath
    /\ kw = NoKw
    /\ ticks = 0
    /\ last = NoCall

\* a directory tree with at most two branches, each at most MaxDepth deep
Init ==
    /\ content = NoFiles
    /\ \E p \in AllPaths, q \in AllPaths : dirs = Closure({p, q})
    /\ \E c \in dirs : Constructed(c)

(***************************************************************************)
(* shift_dir(new_dir)                                                      *)
(***************************************************************************)
ShiftTargets == dirs \cup {p \in AllPaths : Len(p) <= 1}

shift_dir(new_dir) ==
    /\ pc = "idle"
    /\ IF IsDir(new_dir)
       THEN /\ oscwd' = new_dir
            /\ cwd' = new_dir
            /\ files' = Listdir(new_dir)
            /\ last' = [op |-> "shift_dir", arg |-> new_dir, raised |-> FALSE]
       ELSE \* os.chdir raises; nothing is assigned
            /\ last' = [op |-> "shift_dir", arg |-> new_dir, raised |-> TRUE]
            /\ UNCHANGED <<oscwd, cwd, files>>
    /\ UNCHANGED <<dirs, content, parent_dir, pc, current_path, kw, ticks>>

(***************************************************************************)
(* find_closest_kw_folder_up(kw): the call, then one loop iteration per    *)
(* step.                                                                   *)
(***************************************************************************)
UpStart(k) ==
    /\ pc = "idle"
    /\ pc' = "up"
    /\ current_path' = cwd
    /\ kw' = k
    /\ ticks' = 0
    /\ UNCHANGED <<dirs, content, oscwd, cwd, parent_dir, files, last>>

UpReturn(r) ==
    /\ pc' = "idle"
    /\ current_path' = NoPath
    /\ kw' = NoKw
    /\ ticks' = 0
    /\ last' = [op |-> "find_up", kw |-> kw, ret |-> r]

UpMatch(p, k) == Exists(Join(p, k)) /\ IsDir(Join(p, k))
UpBreak(p) == p = parent_dir

UpIter ==
    /\ pc = "up"
    /\ IF UpMatch(current_path, kw)
       THEN UpReturn(PathRet(Join(current_path, kw)))
       ELSE IF UpBreak(current_path)
            THEN UpReturn(NoneRet)
            ELSE /\ current_path' = Dirname(current_path)
                 /\ ticks' = (ticks + 1) % 2
                 /\ UNCHANGED <<pc, kw, last>>
    /\ UNCHANGED <<dirs, content, oscwd, cwd, parent_dir, files>>

(***************************************************************************)
(* find_closest_kw_folder_down(kw): os.walk(self.cwd) top-down.  os.walk   *)
(* lists a directory's entries in the order the filesystem gives them,     *)
(* which is arbitrary: ord is that order.                                  *)
(***************************************************************************)
Orders == {o \in [1..Cardinality(Names) -> Names] :
              \A i, j \in DOMAIN o : o[i] = o[j] => i = j}

\* the dirs list os.walk yields for root
WalkDirs(root, ord) == SelectSeq(ord, LAMBDA n : IsDir(Join(root, n)))

FirstMatch(ds, k) ==
    LET hits == {i \in DOMAIN ds : Contains(k, ds[i])}
    IN IF hits = {} THEN 0
       ELSE CHOOSE i \in hits : \A j \in hits : i <= j

RECURSIVE WalkFind(_, _, _)
RECURSIVE WalkRest(_, _, _, _, _)
\* the walk from root: root's own dirs are tested first, then each is
\* descended into, in order
WalkFind(root, ord, k) ==
    LET ds == WalkDirs(root, ord)
        m == FirstMatch(ds, k)
    IN IF m # 0 THEN PathRet(Join(root, ds[m]))
       ELSE WalkRest(root, ds, 1, ord, k)

WalkRest(root, ds, i, ord, k) ==
    IF i > Len(ds) THEN NoneRet
    ELSE LET r == WalkFind(Join(root, ds[i]), ord, k)
         IN IF r.tag # "None" THEN r
            ELSE WalkRest(root, ds, i + 1, ord, k)

find_closest_kw_folder_down(k, ord) ==
    /\ pc = "idle"
    /\ last' = [op |-> "find_down", kw |-> k, ret |-> WalkFind(cwd, ord, k)]
    /\ UNCHANGED <<dirs, content, oscwd, cwd, parent_dir, files, pc,
                   current_path, kw, ticks>>

Next ==
    \/ \E d \in ShiftTargets : shift_dir(d)
    \/ \E k \in Keywords : UpStart(k)
    \/ UpIter
    \/ \E k \in Keywords, ord \in Orders : find_closest_kw_folder_down(k, ord)

Spec == Init /\ [][Next]_vars

\* the loop of find_closest_kw_folder_up runs on: a single thread that is
\* inside the loop takes its next iteration
FairSpec == Spec /\ WF_vars(UpIter)

(***************************************************************************)
(* construct_dir(new_dir_name) and join_path_with_keyword(keywords...).   *)
(* os.makedirs(p) on a relative name resolves it against the process-wide  *)
(* current directory.                                                      *)
(***************************************************************************)
\* os.makedirs(p): FileExistsError when p exists, NotADirectoryError when a
\* component of p is a regular file; else p and its missing parents
Makedirs(ds, fc, p) ==
    IF ExistsIn(ds, fc, p) \/ \E q \in Prefixes(p) : q \in DOMAIN fc
    THEN [raised |-> TRUE, dirs |-> ds]
    ELSE [raised |-> FALSE, dirs |-> ds \cup Prefixes(p)]

ConstructDirIn(ds, fc, base, name) == Makedirs(ds, fc, Join(base, name))

construct_dir(name) ==
    /\ pc = "idle"
    /\ LET m == ConstructDirIn(dirs, content, oscwd, name)
       IN /\ dirs' = m.dirs
          /\ last' = [op |-> "construct_dir", name |-> name,
                      raised |-> m.raised]
    /\ UNCHANGED <<content, oscwd, cwd, parent_dir, files, pc, current_path,
                   kw, ticks>>

RECURSIVE JoinLoop(_, _, _, _, _)
\* the for loop: cur is the local current_path, base the process directory
JoinLoop(ds, fc, base, cur, segs) ==
    IF segs = <<>> THEN [raised |-> FALSE, ret |-> PathRet(cur), dirs |-> ds]
    ELSE LET cp == Join(cur, Head(segs))
         IN IF ~ExistsIn(ds, fc, cp)
            THEN LET m == ConstructDirIn(ds, fc, base, Head(segs))
                 IN IF m.raised
                    THEN [raised |-> TRUE, ret |-> NoneRet, dirs |-> m.dirs]
                    ELSE JoinLoop(m.dirs, fc, base, cp, Tail(segs))
            ELSE JoinLoop(ds, fc, base, cp, Tail(segs))

RECURSIVE SeqsOfLen(_)
SeqsOfLen(n) ==
    IF n = 0 THEN {<<>>}
    ELSE {Append(s, x) : s \in SeqsOfLen(n - 1), x \in Names}

Segments == UNION {SeqsOfLen(n) : n \in 1..MaxSegs}

join_path_with_keyword(segs) ==
    /\ pc = "idle"
    /\ LET r == JoinLoop(dirs, content, oscwd, cwd, segs)
       IN /\ dirs' = r.dirs
          /\ last' = [op |-> "join", segs |-> segs, raised |-> r.raised,
                      ret |-> r.ret, wasEmpty |-> Listdir(cwd) = {}]
    /\ UNCHANGED <<content, oscwd, cwd, parent_dir, files, pc, current_path,
                   kw, ticks>>

\* the object is constructed in an empty directory c
InitJoin ==
    /\ content = NoFiles
    /\ \E c \in AllPaths : dirs = Prefixes(c) /\ Constructed(c)

NextJoin ==
    \/ \E segs \in Segments : join_path_with_keyword(segs)
    \/ \E n \in Names : construct_dir(n)

SpecJoin == InitJoin /\ [][NextJoin]_vars

(***************************************************************************)
(* move_file(filename, dest), del_file(filename), give_file_info(filename) *)
(***************************************************************************)
FileNames == {NameA, NameB}

RECURSIVE RelPathsOfLen(_)
RelPathsOfLen(n) ==
    IF n = 0 THEN {<<>>}
    ELSE {Append(s, x) : s \in RelPathsOfLen(n - 1), x \in FileNames}

\* destinations, relative to the process directory
Dests == UNION {RelPathsOfLen(n) : n \in 1..MaxDest}

Resolve(base, rel) == base \o rel

\* the entry p, when src is renamed to dst with all below it
Reloc(src, dst, p) ==
    IF IsPrefix(src, p) THEN dst \o SubSeq(p, Len(src) + 1, Len(p)) ELSE p

RenameIn(ds, fc, src, dst) ==
    LET dom == {Reloc(src, dst, p) : p \in DOMAIN fc}
    IN [dirs |-> {Reloc(src, dst, p) : p \in ds},
        content |-> [q \in dom |->
                        fc[CHOOSE p \in DOMAIN fc : Reloc(src, dst, p) = q]]]

MoveFailed(ds, fc) == [ok |-> FALSE, dirs |-> ds, content |-> fc]
MoveDone(ds, fc) == [ok |-> TRUE, dirs |-> ds, content |-> fc]

\* shutil.move(src, dst) for an existing src: ok is FALSE where it raises.
\* A regular file renamed onto a regular file replaces it.
ShutilMove(ds, fc, src, dst) ==
    LET real == IF dst \in ds THEN Join(dst, Basename(src)) ELSE dst
        kept == [q \in (DOMAIN fc) \ {real} |-> fc[q]]
        r == RenameIn(ds, kept, src, real)
    IN IF dst \in ds /\ src = dst THEN MoveDone(ds, fc)
       ELSE IF dst \in ds /\ ExistsIn(ds, fc, real) THEN MoveFailed(ds, fc)
       ELSE IF src \in ds /\ (real \in DOMAIN fc \/ IsPrefix(src, real))
            THEN MoveFailed(ds, fc)
       ELSE IF src = real THEN MoveDone(ds, fc)
       ELSE MoveDone(r.dirs, r.content)

\* what move_file returns on each of its paths: every one of them ends
\* without a return value
MoveRet(outcome) == NoneRet

MoveLog(outcome) ==
    CASE outcome = "missing" -> "Error: File does not exist."
      [] outcome = "moved" -> "moved successfully."
      [] outcome = "error" -> "Error moving file"
      [] OTHER -> ""

\* move_file with the destination created before the test for the file
MoveFileIn_MkdirFirst(ds, fc, base, cw, name, dest) ==
    LET file_path == Join(cw, name)
        dst == Resolve(base, dest)
        m == IF ExistsIn(ds, fc, dst) THEN [raised |-> FALSE, dirs |-> ds]
             ELSE Makedirs(ds, fc, dst)
        mv == ShutilMove(m.dirs, fc, file_path, dst)
    IN IF m.raised
       THEN [outcome |-> "raised", dirs |-> ds, content |-> fc]
       ELSE IF ~ExistsIn(ds, fc, file_path)
       THEN [outcome |-> "missing", dirs |-> m.dirs, content |-> fc]
       ELSE IF mv.ok
       THEN [outcome |-> "moved", dirs |-> mv.dirs, content |-> mv.content]
       ELSE [outcome |-> "error", dirs |-> m.dirs, content |-> fc]

\* the body of move_file: the outcome, and the filesystem it leaves
MoveFileIn(ds, fc, base, cw, name, dest) ==
    LET file_path == Join(cw, name)
        dst == Resolve(base, dest)
        m == IF ExistsIn(ds, fc, dst) THEN [raised |-> FALSE, dirs |-> ds]
             ELSE Makedirs(ds, fc, dst)
        mv == ShutilMove(m.dirs, fc, file_path, dst)
    IN IF ~ExistsIn(ds, fc, file_path)
       THEN [outcome |-> "missing", dirs |-> ds, content |-> fc]
       ELSE IF m.raised
       THEN [outcome |-> "raised", dirs |-> ds, content |-> fc]
       ELSE IF mv.ok
       THEN [outcome |-> "moved", dirs |-> mv.dirs, content |-> mv.content]
       ELSE [outcome |-> "error", dirs |-> m.dirs, content |-> fc]

move_file(name, dest) ==
    /\ pc = "idle"
    /\ LET r == MoveFileIn(dirs, content, oscwd, cwd, name, dest)
       IN /\ \A p \in r.dirs \cup DOMAIN r.content : Len(p) <= MaxFsDepth
          /\ dirs' = r.dirs
          /\ content' = r.content
          /\ files' = IF r.outcome = "moved"
                      THEN ListdirIn(r.dirs, r.content, oscwd)
                      ELSE files
          /\ last' = [op |-> "move_file", name |-> name, dest |-> dest,
                      outcome |-> r.outcome, raised |-> r.outcome = "raised",
                      ret |-> MoveRet(r.outcome), log |-> MoveLog(r.outcome)]
    /\ UNCHANGED <<oscwd, cwd, parent_dir, pc, current_path, kw, ticks>>

\* os.remove(p) for an existing p: a directory raises IsADirectoryError
DelFileIn(ds, fc, cw, name) ==
    LET file_path == Join(cw, name)
    IN IF ~ExistsIn(ds, fc, file_path)
       THEN [outcome |-> "absent", content |-> fc]
       ELSE IF file_path \in ds
       THEN [outcome |-> "raised", content |-> fc]
       ELSE [outcome |-> "removed",
             content |-> [q \in DOMAIN fc \ {file_path} |-> fc[q]]]

del_file(name) ==
    /\ pc = "idle"
    /\ LET r == DelFileIn(dirs, content, cwd, name)
       IN /\ content' = r.content
          /\ files' = IF r.outcome = "removed"
                      THEN ListdirIn(dirs, r.content, oscwd)
                      ELSE files
          /\ last' = [op |-> "del_file", name |-> name,
                      outcome |-> r.outcome, raised |-> r.outcome = "raised"]
    /\ UNCHANGED <<dirs, oscwd, cwd, parent_dir, pc, current_path, kw, ticks>>

InfoRet(name) == [tag |-> "info", filename |-> name]

FileInfoIn(ds, fc, cw, name) ==
    IF ExistsIn(ds, fc, Join(cw, name)) THEN InfoRet(name) ELSE NoneRet

give_file_info(name) ==
    /\ pc = "idle"
    /\ last' = [op |-> "give_file_info", name |-> name,
                ret |-> FileInfoIn(dirs, content, cwd, name)]
    /\ UNCHANGED <<dirs, content, oscwd, cwd, parent_dir, files, pc,
                   current_path, kw, ticks>>

StartDirs == {Root, <<NameData>>}
Kinds == {"absent", "file", "dir"}

\* the object is constructed in a directory c that holds, under each name,
\* nothing, a regular file or a directory
InitFile ==
    \E c \in StartDirs, kind \in [FileNames -> Kinds] :
        /\ dirs = Prefixes(c) \cup {Join(c, n) : n \in {x \in FileNames : kind[x] = "dir"}}
        /\ content = [p \in {Join(c, n) : n \in {x \in FileNames : kind[x] = "file"}}
                        |-> RawFile]
        /\ Constructed(c)

NextFile ==
    \/ \E n \in FileNames, d \in Dests : move_file(n, d)
    \/ \E n \in FileNames : del_file(n)
    \/ \E n \in FileNames : give_file_info(n)

SpecFile == InitFile /\ [][NextFile]_vars

(***************************************************************************)
(* Persistence: JSON, pickle, and dictionaries of DataFrames as one        *)
(* pickle, one HDF5 store, or one CSV file per DataFrame in a folder.      *)
(***************************************************************************)
Dot == "."
Slash == "/"
CsvExt == <<".", "c", "s", "v">>
TableT == <<"t">>
TableU == <<"u">>
TableTU == <<"t", ".", "u">>
TableNames == {TableT, TableU, TableTU}

\* two DataFrames of different rows, both under the default RangeIndex
DfOne == [rows |-> 1, index |-> "default"]
DfTwo == [rows |-> 2, index |-> "default"]
DataFrames == {DfOne, DfTwo}

\* the dictionaries name -> DataFrame
Collections == UNION {[ks -> DataFrames] : ks \in SUBSET TableNames}

JInt == [t |-> "int", v |-> 7]
JTuple == [t |-> "tuple", items |-> <<7>>]
JList == [t |-> "list", items |-> <<7>>]
JsonValues == {JInt, JTuple, JList}

ValueRet(v) == [tag |-> "value", val |-> v]

\* json.dump: a tuple is written as an array, like a list
JsonDump(v) ==
    IF v.t = "int" THEN [fmt |-> "json", kind |-> "number", v |-> v.v]
    ELSE [fmt |-> "json", kind |-> "array", items |-> v.items]

\* json.load: an array is read as a list
JsonLoad(c) ==
    IF c.kind = "number" THEN [t |-> "int", v |-> c.v]
    ELSE [t |-> "list", items |-> c.items]

PickleDump(obj) == [fmt |-> "pickle", obj |-> obj]
PickleLoad(c) == c.obj

\* str.endswith(suf)
EndsWith(name, suf) ==
    /\ Len(name) >= Len(suf)
    /\ SubSeq(name, Len(name) - Len(suf) + 1, Len(name)) = suf

\* str.split(ch)[0]: what precedes the first ch
SplitHead(name, ch) ==
    LET at == {i \in DOMAIN name : name[i] = ch}
    IN IF at = {} THEN name
       ELSE SubSeq(name, 1, (CHOOSE i \in at : \A j \in at : i <= j) - 1)

RECURSIVE Strip(_, _)
\* str.strip(ch): leading and trailing ch removed
Strip(name, ch) ==
    IF name = <<>> THEN name
    ELSE IF Head(name) = ch THEN Strip(Tail(name), ch)
    ELSE IF name[Len(name)] = ch THEN Strip(SubSeq(name, 1, Len(name) - 1), ch)
    ELSE name

\* HDFStore: store[key] = df puts df at the node "/" + key
HdfNode(key) == IF key # <<>> /\ Head(key) = Slash THEN key ELSE <<Slash>> \o key

HdfWrite(dfs) ==
    [fmt |-> "hdf5",
     tables |-> [node \in {HdfNode(k) : k \in DOMAIN dfs} |->
                    dfs[CHOOSE k \in DOMAIN dfs : HdfNode(k) = node]]]

\* the loop over store.keys(): dfs[key.strip('/')] = store[key]
HdfRead(c) ==
    [name \in {Strip(node, Slash) : node \in DOMAIN c.tables} |->
        c.tables[CHOOSE node \in DOMAIN c.tables : Strip(node, Slash) = name]]

\* df.to_csv(path, index=False): the index is not written
ToCsv(df) == [fmt |-> "csv", rows |-> df.rows]
\* pd.read_csv(path): the rows, under a default index
ReadCsv(c) == [rows |-> c.rows, index |-> "default"]

CsvFile(key) == key \o CsvExt

WriteFile(fc, p, c) == [q \in DOMAIN fc \cup {p} |-> IF q = p THEN c ELSE fc[q]]

IOState == <<oscwd, cwd, parent_dir, files, pc, current_path, kw, ticks>>

\* open(file_path, 'w') and the dump into it; a directory cannot be opened
SaveTo(op, filename, data, c) ==
    LET file_path == Join(cwd, filename)
    IN /\ IF file_path \in dirs
          THEN /\ last' = [op |-> op, target |-> filename, data |-> data,
                           raised |-> TRUE]
               /\ UNCHANGED content
          ELSE /\ content' = WriteFile(content, file_path, c)
               /\ last' = [op |-> op, target |-> filename, data |-> data,
                           raised |-> FALSE]
       /\ UNCHANGED dirs
       /\ UNCHANGED IOState

save_json(data, filename) ==
    /\ pc = "idle"
    /\ SaveTo("save_json", filename, data, JsonDump(data))

save_pickle(data, filename) ==
    /\ pc = "idle"
    /\ SaveTo("save_pickle", filename, data, PickleDump(data))

save_dict_of_dfs_pickle(dfs, filename) ==
    /\ pc = "idle"
    /\ SaveTo("save_dict_of_dfs_pickle", filename, dfs, PickleDump(dfs))

save_dict_of_dfs_hdf5(dfs, filename) ==
    /\ pc = "idle"
    /\ SaveTo("save_dict_of_dfs_hdf5", filename, dfs, HdfWrite(dfs))

Loaded(op, target, raised, ret) ==
    /\ last' = [op |-> op, target |-> target, raised |-> raised, ret |-> ret]
    /\ UNCHANGED <<dirs, content>>
    /\ UNCHANGED IOState

\* json.load or pickle.load of what the file holds
Parse(fmt, c) == IF fmt = "json" THEN JsonLoad(c) ELSE PickleLoad(c)

\* load_json, load_pickle, load_dict_of_dfs_pickle: None when the path does
\* not exist; open raises on a directory, the parser on another format
LoadGuarded(op, filename, fmt) ==
    LET file_path == Join(cwd, filename)
    IN IF ~Exists(file_path) THEN Loaded(op, filename, FALSE, NoneRet)
       ELSE IF file_path \in dirs \/ content[file_path].fmt # fmt
       THEN Loaded(op, filename, TRUE, NoneRet)
       ELSE Loaded(op, filename, FALSE,
                   ValueRet(Parse(fmt, content[file_path])))

load_json(filename) ==
    /\ pc = "idle"
    /\ LoadGuarded("load_json", filename, "json")

load_pickle(filename) ==
    /\ pc = "idle"
    /\ LoadGuarded("load_pickle", filename, "pickle")

load_dict_of_dfs_pickle(filename) ==
    /\ pc = "idle"
    /\ LoadGuarded("load_dict_of_dfs_pickle", filename, "pickle")

\* pd.HDFStore(file_path, mode='r') is opened without a test for the path:
\* it raises when there is no such file, or no HDF5 file
load_dict_of_dfs_hdf5(filename) ==
    /\ pc = "idle"
    /\ LET file_path == Join(cwd, filename)
       IN IF ~IsFile(file_path) \/ content[file_path].fmt # "hdf5"
          THEN Loaded("load_dict_of_dfs_hdf5", filename, TRUE, NoneRet)
          ELSE Loaded("load_dict_of_dfs_hdf5", filename, FALSE,
                      ValueRet(HdfRead(content[file_path])))

\* the loop of to_csv calls: each raises when folder is no directory
save_dict_of_dfs_csv(dfs, folder) ==
    /\ pc = "idle"
    /\ LET dir == Join(oscwd, folder)
           raised == DOMAIN dfs # {} /\ dir \notin dirs
           written == {Join(dir, CsvFile(k)) : k \in DOMAIN dfs}
       IN /\ content' =
                IF raised THEN content
                ELSE [q \in DOMAIN content \cup written |->
                        IF q \in written
                        THEN ToCsv(dfs[CHOOSE k \in DOMAIN dfs :
                                          Join(dir, CsvFile(k)) = q])
                        ELSE content[q]]
          /\ last' = [op |-> "save_dict_of_dfs_csv", target |-> folder,
                      data |-> dfs, raised |-> raised]
    /\ UNCHANGED dirs
    /\ UNCHANGED IOState

\* os.listdir(folder) raises when folder is no directory.  Two files whose
\* names split to one key: the one listed later stays (pick chooses it).
CsvListed(dir) == {n \in Listdir(dir) : EndsWith(n, CsvExt)}
CsvKeys(dir) == {SplitHead(n, Dot) : n \in CsvListed(dir)}
CsvPicks(dir) ==
    {pick \in [CsvKeys(dir) -> CsvListed(dir)] :
        \A k \in CsvKeys(dir) : SplitHead(pick[k], Dot) = k}

load_dict_of_dfs_csv(folder) ==
    /\ pc = "idle"
    /\ LET dir == Join(oscwd, folder)
       IN IF dir \notin dirs
          THEN Loaded("load_dict_of_dfs_csv", folder, TRUE, NoneRet)
          ELSE \E pick \in CsvPicks(dir) :
                  Loaded("load_dict_of_dfs_csv", folder, FALSE,
                         ValueRet([k \in CsvKeys(dir) |->
                                     ReadCsv(content[Join(dir, pick[k])])]))

IOFile == NameA
IOFolder == NameB

\* the object is constructed in an empty directory
InitIO ==
    /\ dirs = {Root}
    /\ content = NoFiles
    /\ Constructed(Root)

NextIO ==
    \/ construct_dir(IOFolder)
    \/ \E v \in JsonValues : save_json(v, IOFile)
    \/ load_json(IOFile)
    \/ \E v \in JsonValues : save_pickle(v, IOFile)
    \/ load_pickle(IOFile)
    \/ \E x \in Collections : save_dict_of_dfs_pickle(x, IOFile)
    \/ load_dict_of_dfs_pickle(IOFile)
    \/ \E x \in Collections : save_dict_of_dfs_hdf5(x, IOFile)
    \/ load_dict_of_dfs_hdf5(IOFile)
    \/ \E x \in Collections : save_dict_of_dfs_csv(x, IOFolder)
    \/ load_dict_of_dfs_csv(IOFolder)

SpecIO == InitIO /\ [][NextIO]_vars

(***************************************************************************)
(*                               Properties                                *)
(***************************************************************************)

\* C1 (Spec): when shift_dir returns, parent_dir is the parent directory of
\* cwd and files is the listing of cwd.
C1_CachedFieldsConsistent ==
    (last.op = "shift_dir" /\ ~last.raised)
        => (parent_dir = Dirname(cwd) /\ files = Listdir(cwd))

\* C2 (FairSpec): a running find_closest_kw_folder_up returns, with a path
\* or with None, after finitely many iterations.
C2_UpSearchTerminates == (pc = "up") ~> (pc = "idle")

\* C3 (Spec): with cwd = D/a/b, D named by the keyword, a and b not, and no
\* directory of that name in D/a/b or D/a, find_closest_kw_folder_up
\* returns D.
TwoBelowKeyword(k) ==
    /\ Len(cwd) >= 3
    /\ Basename(Dirname(Dirname(cwd))) = k
    /\ Basename(Dirname(cwd)) # k
    /\ Basename(cwd) # k
    /\ ~IsDir(Join(cwd, k))
    /\ ~IsDir(Join(Dirname(cwd), k))

C3_UpFindsAncestorTwoLevelsUp ==
    (last.op = "find_up" /\ TwoBelowKeyword(last.kw))
        => last.ret = PathRet(Dirname(Dirname(cwd)))

\* C4 (SpecJoin): called in an empty cwd with segments s1..sn,
\* join_path_with_keyword returns cwd/s1/../sn, and the directories below
\* cwd are then exactly the prefixes cwd/s1/../si.
JoinPrefixes(segs) == {cwd \o SubSeq(segs, 1, i) : i \in 1..Len(segs)}
Below(p) == {q \in dirs \cup DOMAIN content : IsPrefix(p, q) /\ q # p}

C4_JoinCreatesEveryPrefix ==
    (last.op = "join" /\ last.wasEmpty)
        => /\ ~last.raised
           /\ last.ret = PathRet(cwd \o last.segs)
           /\ JoinPrefixes(last.segs) \subseteq dirs
           /\ Below(cwd) = JoinPrefixes(last.segs)

\* C5 (SpecJoin): a second join_path_with_keyword call with the segments of
\* a first call made in an empty cwd raises nothing, returns what the first
\* returned and creates nothing.
C5_JoinIdempotent ==
    [][(/\ last.op = "join" /\ last.wasEmpty /\ ~last.raised
        /\ last'.op = "join" /\ last'.segs = last.segs)
           => (/\ ~last'.raised
               /\ last'.ret = last.ret
               /\ dirs' = dirs
               /\ content' = content)]_vars

\* C6 (SpecIO): a load whose file or folder does not exist returns None and
\* raises nothing.
LoadOps == {"load_json", "load_pickle", "load_dict_of_dfs_pickle",
            "load_dict_of_dfs_hdf5", "load_dict_of_dfs_csv"}

TargetMissing ==
    IF last.op = "load_dict_of_dfs_csv"
    THEN ~Exists(Join(oscwd, last.target))
    ELSE ~Exists(Join(cwd, last.target))

C6_LoadOfMissingTargetReturnsNone ==
    (last.op \in LoadOps /\ TargetMissing)
        => (~last.raised /\ last.ret = NoneRet)

\* C7 (SpecIO): for pickle, HDF5 and CSV, loading a target directly after
\* a dictionary x was saved to it returns exactly x, whatever the target
\* file or (existing) folder held before.
DfsSaves == {"save_dict_of_dfs_pickle", "save_dict_of_dfs_hdf5",
             "save_dict_of_dfs_csv"}

LoaderOf(op) ==
    CASE op = "save_dict_of_dfs_pickle" -> "load_dict_of_dfs_pickle"
      [] op = "save_dict_of_dfs_hdf5" -> "load_dict_of_dfs_hdf5"
      [] op = "save_dict_of_dfs_csv" -> "load_dict_of_dfs_csv"

C7_DfsRoundTrip ==
    [][(/\ last.op \in DfsSaves /\ ~last.raised
        /\ last.op = "save_dict_of_dfs_csv" => IsDir(Join(oscwd, last.target))
        /\ last'.op = LoaderOf(last.op) /\ last'.target = last.target)
           => (~last'.raised /\ last'.ret = ValueRet(last.data))]_vars

\* C8 (SpecFile), as claimed: move_file of a name that does not exist under
\* cwd returns a value other than the one a successful move returns, and
\* leaves the filesystem as it was.
MoveOfMissing ==
    last'.op = "move_file" /\ ~Exists(Join(cwd, last'.name))

C8_MissingMoveReturnsFailure ==
    [][MoveOfMissing
           => (/\ last'.ret # MoveRet("moved")
               /\ dirs' = dirs
               /\ content' = content)]_vars

\* C8 (SpecFile), amended: move_file of a name that does not exist under
\* cwd raises nothing, prints the error line, returns None as a successful
\* move does, and leaves the filesystem and the cached listing as they
\* were: dest is not created and nothing in it changes.
C8_MissingMoveIsLoggedNoOp ==
    [][MoveOfMissing
           => (/\ ~last'.raised
               /\ last'.log = "Error: File does not exist."
               /\ last'.ret = NoneRet
               /\ last'.ret = MoveRet("moved")
               /\ dirs' = dirs
               /\ content' = content
               /\ files' = files)]_vars

\* a move_file of a missing name has returned, and its dest does not exist
C8_Witness ==
    /\ last.op = "move_file"
    /\ last.outcome = "missing"
    /\ ~Exists(Join(cwd, last.name))
    /\ ~Exists(Resolve(oscwd, last.dest))

\* C9 (SpecFile): give_file_info(name) directly after del_file(name)
\* returns None, whether name was absent, a regular file or a directory.
C9_InfoAfterDeleteIsNone ==
    [][(/\ last.op = "del_file"
        /\ last'.op = "give_file_info" /\ last'.name = last.name)
           => last'.ret = NoneRet]_vars

\* C10 (Spec): find_closest_kw_folder_down returns a directory no deeper
\* below cwd than any other directory whose name contains the keyword, and
\* returns None only when the tree below cwd holds no such directory.
MatchDepths(k) ==
    {Len(p) - Len(cwd) : p \in {q \in Below(cwd) \cap dirs :
                                   Contains(k, Basename(q))}}

C10_DownFindsClosest ==
    last.op = "find_down"
        => IF last.ret.tag = "path"
           THEN \A d \in MatchDepths(last.kw) :
                    Len(last.ret.path) - Len(cwd) <= d
           ELSE MatchDepths(last.kw) = {}

====
